---- MODULE Spec2Model ----
(***************************************************************************)
(* Model of the FXD agent coordinator's context manager                    *)
(* (src/agent-coordinator/agent-context-manager.py): the per-agent context *)
(* store with its token-budget trimming, the annotation scanner, the       *)
(* annotation index and the relevance lookup, and of the two-phase launcher *)
(* (src/agent-coordinator/launch-all-agents.py).                           *)
(*                                                                         *)
(* Strings whose characters the code inspects (file lines, paths,          *)
(* timestamps) are tuples of one-character strings; an Optional value is a *)
(* sequence of length 0 (None) or 1.                                       *)
(***************************************************************************)
EXTENDS Integers, Sequences, FiniteSets, TLC

VARIABLES
    agents,            \* self.agents: agent name -> AgentContext
    context_files,     \* contexts/<agent>.json: agent name -> persisted record
    annotations,       \* self.annotations: path -> sequence of CodeAnnotation
    annotations_file,  \* annotations.json: <<>> when absent, else <<index>>
    fs,                \* source files under base_dir: path -> sequence of lines
    clock,             \* the calendar day datetime.now() falls on
    last,              \* the last call: its arguments and what it did
    instruction_files, \* agents/<name>-instructions.txt: the names written
    phase2_file,       \* phase2-agents.json has been written
    signal_file,       \* tasks/.critical-path-complete exists
    signal_existed,    \* it has existed at some time
    phase2_next        \* launch_phase2's loop: index of the next agent, 0 = not running

launcher == <<instruction_files, phase2_file, signal_file, signal_existed, phase2_next>>

vars ==
    <<agents, context_files, annotations, annotations_file, fs, clock, last, launcher>>

(***************************************************************************)
(* Bounds of the model and the inputs the operations are given.            *)
(***************************************************************************)
MaxMessages == 4       \* add_message is not called on a longer message list
MaxDay == 2            \* the clock stops advancing at this day
MaxLines == 7          \* no source file grows beyond this many lines
MaxMarkers == 3        \* nor beyond this many lines that carry a marker

AgentNames == {<<"a">>, <<"b">>}     \* the agents "a" and "b"
TaskFiles == {"task.md"}
Roles == {"user"}
Contents == {"text"}
TokenCosts == {0, 95000, 190000}

(***************************************************************************)
(* Program constants.                                                      *)
(***************************************************************************)
DefaultMaxTokens == 200000
TrimHeadroom == 20000
LookAheadSpan == 5
DayPrefixLen == 10

(***************************************************************************)
(* datetime.now().isoformat(): "2025-01-0<d>T10:00:00".                    *)
(***************************************************************************)
Digits == <<"1", "2", "3", "4", "5", "6", "7", "8", "9">>

IsoDate(day) == <<"2", "0", "2", "5", "-", "0", "1", "-", "0", Digits[day]>>

IsoNow(day) == IsoDate(day) \o <<"T", "1", "0", ":", "0", "0", ":", "0", "0">>

(***************************************************************************)
(* The dataclass AgentContext and its JSON form.                           *)
(***************************************************************************)
AgentContext(agent_name, timestamp, task_file, current_tokens) ==
    [agent_name |-> agent_name, timestamp |-> timestamp, task_file |-> task_file,
     current_tokens |-> current_tokens, max_tokens |-> DefaultMaxTokens,
     messages |-> <<>>]

asdict(context) ==
    [agent_name |-> context.agent_name, timestamp |-> context.timestamp,
     task_file |-> context.task_file, current_tokens |-> context.current_tokens,
     max_tokens |-> context.max_tokens, messages |-> context.messages]

FromDict(data) ==
    [agent_name |-> data.agent_name, timestamp |-> data.timestamp,
     task_file |-> data.task_file, current_tokens |-> data.current_tokens,
     max_tokens |-> data.max_tokens, messages |-> data.messages]

Message(role, content, timestamp, tokens) ==
    [role |-> role, content |-> content, timestamp |-> timestamp, tokens |-> tokens]

(***************************************************************************)
(* A run of one store operation: the registry and the context files it     *)
(* leaves, the records it wrote in order, the exception it raised ("none"  *)
(* when it returned) and the number of messages trimming removed.          *)
(***************************************************************************)
Run(mem, disk) ==
    [agents |-> mem, context_files |-> disk, saves |-> <<>>, error |-> "none",
     removed |-> 0]

Raise(run, exception) == [run EXCEPT !.error = exception]

_save_context_skip(run, agent_name, context) == run

_save_context(run, agent_name, context) ==
    [run EXCEPT !.context_files = (agent_name :> asdict(context)) @@ @,
                !.saves = Append(@, asdict(context))]

register_agent(run, agent_name, task_file, now) ==
    LET context == AgentContext(agent_name, now, task_file, 0)
        stored == [run EXCEPT !.agents = (agent_name :> context) @@ @]
    IN  _save_context(stored, agent_name, context)

Pop(list, index) ==     \* list.pop(index), index counted from 0
    SubSeq(list, 1, index) \o SubSeq(list, index + 2, Len(list))

RECURSIVE TrimLoop_keep_count(_, _)
TrimLoop_keep_count(context, target_tokens) ==
    IF context.current_tokens > target_tokens /\ Len(context.messages) > 1
    THEN TrimLoop_keep_count([context EXCEPT !.messages = Pop(@, 1)], target_tokens)
    ELSE context

RECURSIVE TrimLoop_oldest(_, _)
TrimLoop_oldest(context, target_tokens) ==
    IF context.current_tokens > target_tokens /\ Len(context.messages) > 1
    THEN LET removed == context.messages[1]
         IN  TrimLoop_oldest([context EXCEPT !.messages = Pop(@, 0),
                                             !.current_tokens = @ - removed.tokens],
                             target_tokens)
    ELSE context

RECURSIVE TrimLoop(_, _)
TrimLoop(context, target_tokens) ==
    IF context.current_tokens > target_tokens /\ Len(context.messages) > 1
    THEN LET removed == context.messages[2]
         IN  TrimLoop([context EXCEPT !.messages = Pop(@, 1),
                                      !.current_tokens = @ - removed.tokens],
                      target_tokens)
    ELSE context

_trim_context(run, agent_name) ==
    IF agent_name \notin DOMAIN run.agents
    THEN Raise(run, "KeyError")
    ELSE LET context == run.agents[agent_name]
             target_tokens == context.max_tokens - TrimHeadroom
             trimmed == TrimLoop(context, target_tokens)
             stored == [run EXCEPT
                          !.agents = (agent_name :> trimmed) @@ @,
                          !.removed = Len(context.messages) - Len(trimmed.messages)]
         IN  _save_context(stored, agent_name, trimmed)

add_message_autoregister(run, agent_name, message) ==
    LET known == IF agent_name \in DOMAIN run.agents
                 THEN run.agents[agent_name]
                 ELSE AgentContext(agent_name, message.timestamp, "", 0)
        context == [known EXCEPT !.messages = Append(@, message),
                                 !.current_tokens = @ + message.tokens]
        stored == [run EXCEPT !.agents = (agent_name :> context) @@ @]
        checked == IF context.current_tokens > context.max_tokens
                   THEN _trim_context(stored, agent_name)
                   ELSE stored
    IN  _save_context(checked, agent_name, checked.agents[agent_name])

add_message_save_first(run, agent_name, message) ==
    IF agent_name \notin DOMAIN run.agents
    THEN Raise(run, "ValueError")
    ELSE LET context == [run.agents[agent_name] EXCEPT
                           !.messages = Append(@, message),
                           !.current_tokens = @ + message.tokens]
             stored == _save_context([run EXCEPT !.agents = (agent_name :> context) @@ @],
                                     agent_name, context)
         IN  IF context.current_tokens > context.max_tokens
             THEN _trim_context(stored, agent_name)
             ELSE stored

add_message(run, agent_name, message) ==
    IF agent_name \notin DOMAIN run.agents
    THEN Raise(run, "ValueError")
    ELSE LET context == [run.agents[agent_name] EXCEPT
                           !.messages = Append(@, message),
                           !.current_tokens = @ + message.tokens]
             stored == [run EXCEPT !.agents = (agent_name :> context) @@ @]
             checked == IF context.current_tokens > context.max_tokens
                        THEN _trim_context(stored, agent_name)
                        ELSE stored
         IN  _save_context(checked, agent_name, checked.agents[agent_name])

load_context(disk, agent_name) ==
    IF agent_name \in DOMAIN disk THEN <<FromDict(disk[agent_name])>> ELSE <<>>

(***************************************************************************)
(* The record of the last call.                                            *)
(***************************************************************************)
NoCall ==
    [op |-> "init", agent |-> <<>>, known |-> FALSE, tokens |-> 0, error |-> "none",
     saves |-> <<>>, removed |-> 0, path |-> <<>>, result |-> <<>>]

Call(op, agent_name, tokens, run) ==
    [NoCall EXCEPT !.op = op, !.agent = agent_name, !.tokens = tokens,
                   !.known = agent_name \in DOMAIN agents,
                   !.error = run.error, !.saves = run.saves, !.removed = run.removed]

(***************************************************************************)
(* The operations of the store.                                            *)
(***************************************************************************)
EmptyMap == [x \in {} |-> <<>>]

LauncherInit ==     \* nothing of the launcher has run
    /\ instruction_files = {}
    /\ phase2_file = FALSE
    /\ signal_file = FALSE
    /\ signal_existed = FALSE
    /\ phase2_next = 0

Init ==
    /\ agents = EmptyMap
    /\ context_files = EmptyMap
    /\ annotations = EmptyMap
    /\ annotations_file = <<>>
    /\ fs = EmptyMap
    /\ clock = 1
    /\ last = NoCall
    /\ LauncherInit

Commit(op, agent_name, tokens, run) ==
    /\ agents' = run.agents
    /\ context_files' = run.context_files
    /\ last' = Call(op, agent_name, tokens, run)
    /\ UNCHANGED <<annotations, annotations_file, fs, clock, launcher>>

RegisterAgent(agent_name, task_file) ==
    Commit("register", agent_name, 0,
           register_agent(Run(agents, context_files), agent_name, task_file,
                          IsoNow(clock)))

AddMessage(agent_name, role, content, tokens) ==
    /\ agent_name \in DOMAIN agents => Len(agents[agent_name].messages) < MaxMessages
    /\ Commit("add_message", agent_name, tokens,
              add_message(Run(agents, context_files), agent_name,
                          Message(role, content, IsoNow(clock), tokens)))

TrimContext(agent_name) ==
    Commit("trim", agent_name, 0, _trim_context(Run(agents, context_files), agent_name))

LoadContext_caching(agent_name) ==
    LET found == load_context(context_files, agent_name)
    IN  /\ last' = [NoCall EXCEPT !.op = "load", !.agent = agent_name, !.result = found]
        /\ agents' = IF found = <<>> THEN agents ELSE (agent_name :> found[1]) @@ agents
        /\ UNCHANGED <<context_files, annotations, annotations_file, fs, clock, launcher>>

LoadContext(agent_name) ==
    /\ last' = [NoCall EXCEPT !.op = "load", !.agent = agent_name,
                              !.result = load_context(context_files, agent_name)]
    /\ UNCHANGED <<agents, context_files, annotations, annotations_file, fs, clock, launcher>>

_load_annotations(file) == IF file = <<>> THEN EmptyMap ELSE file[1]

NewManager_restoring ==
    /\ agents' = [a \in DOMAIN context_files |-> FromDict(context_files[a])]
    /\ annotations' = _load_annotations(annotations_file)
    /\ last' = [NoCall EXCEPT !.op = "new"]
    /\ UNCHANGED <<context_files, annotations_file, fs, clock, launcher>>

NewManager ==       \* AgentContextManager(): a new run over the same directory
    /\ agents' = EmptyMap
    /\ annotations' = _load_annotations(annotations_file)
    /\ last' = [NoCall EXCEPT !.op = "new"]
    /\ UNCHANGED <<context_files, annotations_file, fs, clock, launcher>>

\* main() with the command trim: a new manager, then _trim_context(--agent);
\* without --agent it prints that the option is required and returns
TrimCommand(agent_name) ==
    LET started == Run(EmptyMap, context_files)
        run == IF agent_name = <<>> THEN started ELSE _trim_context(started, agent_name)
    IN  /\ agents' = run.agents
        /\ context_files' = run.context_files
        /\ annotations' = _load_annotations(annotations_file)
        /\ last' = [Call("trim_command", agent_name, 0, run) EXCEPT !.known = FALSE]
        /\ UNCHANGED <<annotations_file, fs, clock, launcher>>

StoreNext ==
    \/ \E a \in AgentNames, t \in TaskFiles : RegisterAgent(a, t)
    \/ \E a \in AgentNames, r \in Roles, c \in Contents, k \in TokenCosts :
          AddMessage(a, r, c, k)
    \/ \E a \in AgentNames : TrimContext(a)
    \/ \E a \in AgentNames : LoadContext(a)
    \/ NewManager
    \/ \E a \in AgentNames \cup {<<>>} : TrimCommand(a)

Spec == Init /\ [][StoreNext]_vars

(***************************************************************************)
(* Text: str operations and the regular expressions of the scanner, on     *)
(* tuples of characters.                                                   *)
(***************************************************************************)
WhiteSpace == {" ", "\t", "\n", "\r"}

AGENT_MARK == <<"@", "a", "g", "e", "n", "t", ":">>
TIMESTAMP_MARK == <<"@", "t", "i", "m", "e", "s", "t", "a", "m", "p", ":">>
TASK_MARK == <<"@", "t", "a", "s", "k", ":">>
NOTES_MARK == <<"@", "n", "o", "t", "e", "s", ":">>

Least(set) == CHOOSE n \in set : \A m \in set : n <= m

Greatest(set) == CHOOSE n \in set : \A m \in set : n >= m

From(text, i) == SubSeq(text, i, Len(text))

StartsAt(text, pattern, i) ==
    /\ i + Len(pattern) - 1 <= Len(text)
    /\ SubSeq(text, i, i + Len(pattern) - 1) = pattern

Contains(text, pattern) ==          \* pattern in text
    \E i \in 1..(Len(text) + 1) : StartsAt(text, pattern, i)

startswith(text, prefix) == StartsAt(text, prefix, 1)

EndsWith(text, suffix) == StartsAt(text, suffix, Len(text) - Len(suffix) + 1)

RECURSIVE lstrip(_)
lstrip(text) ==
    IF text # <<>> /\ Head(text) \in WhiteSpace THEN lstrip(Tail(text)) ELSE text

RECURSIVE rstrip(_)
rstrip(text) ==
    IF text # <<>> /\ text[Len(text)] \in WhiteSpace
    THEN rstrip(SubSeq(text, 1, Len(text) - 1))
    ELSE text

strip(text) == rstrip(lstrip(text))

RECURSIVE NonSpaceRun(_)
NonSpaceRun(text) ==                \* the longest match of \S* at the start
    IF text # <<>> /\ Head(text) \notin WhiteSpace
    THEN <<Head(text)>> \o NonSpaceRun(Tail(text))
    ELSE <<>>

RECURSIVE DotRun(_)
DotRun(text) ==                     \* the longest match of .* at the start
    IF text # <<>> /\ Head(text) # "\n"
    THEN <<Head(text)>> \o DotRun(Tail(text))
    ELSE <<>>

\* re.search(r'@agent:\s*(\S+)', line): <<>> for None, else <<group(1)>>
SearchAgent(line) ==
    LET starts == {i \in 1..Len(line) :
                      /\ StartsAt(line, AGENT_MARK, i)
                      /\ lstrip(From(line, i + Len(AGENT_MARK))) # <<>>}
    IN  IF starts = {} THEN <<>>
        ELSE <<NonSpaceRun(lstrip(From(line, Least(starts) + Len(AGENT_MARK))))>>

\* what \s*(.+) captures at the start of rest: \s* takes the longest run of
\* white space that still leaves .+ a character other than a newline
RestGroup(rest) ==
    LET run == Len(rest) - Len(lstrip(rest))
        skips == {k \in 0..run : k < Len(rest) /\ rest[k + 1] # "\n"}
    IN  IF skips = {} THEN <<>> ELSE <<DotRun(From(rest, Greatest(skips) + 1))>>

\* re.search(marker + r'\s*(.+)', line): <<>> for None, else <<group(1)>>
SearchRest(line, marker) ==
    LET starts == {i \in 1..Len(line) :
                      /\ StartsAt(line, marker, i)
                      /\ RestGroup(From(line, i + Len(marker))) # <<>>}
    IN  IF starts = {} THEN <<>>
        ELSE RestGroup(From(line, Least(starts) + Len(marker)))

(***************************************************************************)
(* scan_code_annotations.                                                  *)
(***************************************************************************)
CodeAnnotation(file_path, line_number, agent_name, timestamp, task_ref, notes) ==
    [file_path |-> file_path, line_number |-> line_number, agent_name |-> agent_name,
     timestamp |-> timestamp, task_ref |-> task_ref, notes |-> notes]

NoCompanions == [timestamp |-> <<>>, task_ref |-> <<>>, notes |-> <<>>, failed |-> FALSE]

\* if marker in line: field = re.search(...).group(1).strip(); <<>> stands
\* for the AttributeError of None.group, else <<the field's value>>
Companion(line, marker, field) ==
    IF Contains(line, marker)
    THEN IF SearchRest(line, marker) = <<>> THEN <<>>
         ELSE <<strip(SearchRest(line, marker)[1])>>
    ELSE <<field>>

Inspect(line, found) ==              \* the body of the look-ahead loop
    LET timestamp == Companion(line, TIMESTAMP_MARK, found.timestamp)
        task_ref == Companion(line, TASK_MARK, found.task_ref)
        notes == Companion(line, NOTES_MARK, found.notes)
    IN  IF timestamp = <<>> \/ task_ref = <<>> \/ notes = <<>>
        THEN [found EXCEPT !.failed = TRUE]
        ELSE [timestamp |-> timestamp[1], task_ref |-> task_ref[1],
              notes |-> notes[1], failed |-> FALSE]

LookAheadStop_six(line_num, count) ==
    IF line_num + 6 < count THEN line_num + 6 ELSE count

\* min(line_num + 5, len(lines))
LookAheadStop(line_num, count) ==
    IF line_num + LookAheadSpan < count THEN line_num + LookAheadSpan ELSE count

RECURSIVE LookAhead(_, _, _, _)
LookAhead(lines, i, stop, found) ==  \* for i in range(i, stop), i from 0
    IF i >= stop \/ found.failed THEN found
    ELSE LookAhead(lines, i + 1, stop, Inspect(lines[i + 1], found))

\* the lines the iterator of the open file has passed after f.seek(0) and
\* f.readlines(): all of them, the file is at its end
AfterReadlines(lines, line_num) == Len(lines)

RECURSIVE ScanLines(_, _, _, _)
ScanLines(file_path, lines, passed, found_annotations) ==
    IF passed >= Len(lines) THEN found_annotations
    ELSE LET line_num == passed + 1
             line == lines[line_num]
             match == IF Contains(line, AGENT_MARK) THEN SearchAgent(line) ELSE <<>>
         IN  IF match = <<>>
             THEN ScanLines(file_path, lines, line_num, found_annotations)
             ELSE LET found == LookAhead(lines, line_num,
                                         LookAheadStop(line_num, Len(lines)),
                                         NoCompanions)
                  IN  IF found.failed
                      THEN found_annotations    \* except Exception: print
                      ELSE ScanLines(file_path, lines, AfterReadlines(lines, line_num),
                               Append(found_annotations,
                                      CodeAnnotation(file_path, line_num, match[1],
                                                     found.timestamp, found.task_ref,
                                                     found.notes)))

scan_code_annotations(files, file_path) ==
    IF file_path \notin DOMAIN files
    THEN <<>>                        \* open() raises, the except returns []
    ELSE ScanLines(file_path, files[file_path], 0, <<>>)

(***************************************************************************)
(* The scanner applied to the files an editor can produce line by line.    *)
(***************************************************************************)
Comment == <<"/", "/", " ">>
NL == <<"\n">>

PlainLine == <<"x", ";">> \o NL
AnchorLine == Comment \o AGENT_MARK \o <<" ", "a">> \o NL
BareAnchorLine == Comment \o AGENT_MARK \o NL
TaskLine1 == Comment \o TASK_MARK \o <<" ", "T", "1">> \o NL
TaskLine2 == Comment \o TASK_MARK \o <<" ", "T", "2", " ">> \o NL
BareTaskLine == Comment \o TASK_MARK \o NL
StampLine == Comment \o TIMESTAMP_MARK \o <<" ">> \o IsoDate(1) \o NL
NotesLine == Comment \o NOTES_MARK \o <<" ", "n", " ", "b">> \o NL

Markers == {AGENT_MARK, TIMESTAMP_MARK, TASK_MARK, NOTES_MARK}

SourceLines ==
    {PlainLine, AnchorLine, BareAnchorLine, TaskLine1, TaskLine2, BareTaskLine,
     StampLine, NotesLine}

MarkedLines == {line \in SourceLines : \E marker \in Markers : Contains(line, marker)}

MarkerLines(lines) == Cardinality({i \in 1..Len(lines) : lines[i] \in MarkedLines})

ScanPath == <<"a", ".", "t", "s">>

ScanInit ==
    /\ agents = EmptyMap
    /\ context_files = EmptyMap
    /\ annotations = EmptyMap
    /\ annotations_file = <<>>
    /\ fs = (ScanPath :> <<>>)
    /\ clock = 1
    /\ last = NoCall
    /\ LauncherInit

WriteFile(file_path, lines) ==       \* an editor saves the file
    /\ fs' = (file_path :> lines) @@ fs
    /\ last' = [NoCall EXCEPT !.op = "write", !.path = file_path]
    /\ UNCHANGED <<agents, context_files, annotations, annotations_file, clock, launcher>>

WriteLine(file_path, line) ==        \* an editor appends a line to the file
    /\ Len(fs[file_path]) < MaxLines
    /\ MarkerLines(Append(fs[file_path], line)) <= MaxMarkers
    /\ WriteFile(file_path, Append(fs[file_path], line))

ScanCodeAnnotations(file_path) ==
    /\ last' = [NoCall EXCEPT !.op = "scan", !.path = file_path,
                              !.result = scan_code_annotations(fs, file_path)]
    /\ UNCHANGED <<agents, context_files, annotations, annotations_file, fs, clock, launcher>>

ScanNext ==
    \/ \E line \in SourceLines : WriteLine(ScanPath, line)
    \/ ScanCodeAnnotations(ScanPath)

ScanSpec == ScanInit /\ [][ScanNext]_vars

(***************************************************************************)
(* The annotation index and the relevance lookup.                          *)
(***************************************************************************)
SkipMarkers ==
    {<<"n", "o", "d", "e", "_", "m", "o", "d", "u", "l", "e", "s">>,
     <<"d", "i", "s", "t">>,
     <<".", "g", "i", "t">>}

TsSuffix == <<".", "t", "s">>

\* base_dir.glob("**/*.ts") without the paths that contain a skip marker
FilesToScan(files) ==
    {ts_file \in DOMAIN files :
        /\ EndsWith(ts_file, TsSuffix)
        /\ ~\E skip \in SkipMarkers : Contains(ts_file, skip)}

update_annotations_index(index, files) ==
    LET found == {ts_file \in FilesToScan(files) :
                     scan_code_annotations(files, ts_file) # <<>>}
    IN  [file_path \in DOMAIN index \cup found |->
            IF file_path \in found
            THEN scan_code_annotations(files, file_path)
            ELSE index[file_path]]

_save_annotations(index) ==
    <<[file_path \in DOMAIN index |->
          [i \in 1..Len(index[file_path]) |->
              LET ann == index[file_path][i]
              IN  CodeAnnotation(ann.file_path, ann.line_number, ann.agent_name,
                                 ann.timestamp, ann.task_ref, ann.notes)]]>>

RECURSIVE MatchingMessages(_, _, _)
MatchingMessages(ann, messages, relevant) ==    \* for msg in other_context.messages
    IF messages = <<>> THEN relevant
    ELSE LET msg == Head(messages)
             day == SubSeq(ann.timestamp, 1,
                           IF Len(ann.timestamp) < DayPrefixLen
                           THEN Len(ann.timestamp) ELSE DayPrefixLen)
         IN  MatchingMessages(ann, Tail(messages),
                 IF startswith(msg.timestamp, day)
                 THEN Append(relevant, [agent |-> ann.agent_name, task |-> ann.task_ref,
                                        message |-> msg, notes |-> ann.notes])
                 ELSE relevant)

RECURSIVE RelevantFrom(_, _, _, _)
RelevantFrom(anns, disk, agent_name, relevant) ==   \* for ann in annotations[file_path]
    IF anns = <<>> THEN relevant
    ELSE LET ann == Head(anns)
             other_context == load_context(disk, ann.agent_name)
         IN  RelevantFrom(Tail(anns), disk, agent_name,
                 IF ann.agent_name # agent_name /\ other_context # <<>>
                 THEN MatchingMessages(ann, other_context[1].messages, relevant)
                 ELSE relevant)

get_relevant_context(index, disk, agent_name, file_path) ==
    IF file_path \in DOMAIN index
    THEN RelevantFrom(index[file_path], disk, agent_name, <<>>)
    ELSE <<>>

UpdateAnnotationsIndex ==
    /\ annotations' = update_annotations_index(annotations, fs)
    /\ annotations_file' = _save_annotations(annotations')
    /\ last' = [NoCall EXCEPT !.op = "update_index"]
    /\ UNCHANGED <<agents, context_files, fs, clock, launcher>>

GetRelevantContext(agent_name, file_path) ==
    /\ last' = [NoCall EXCEPT
                  !.op = "relevant", !.agent = agent_name, !.path = file_path,
                  !.result = get_relevant_context(annotations, context_files,
                                                  agent_name, file_path)]
    /\ UNCHANGED <<agents, context_files, annotations, annotations_file, fs, clock, launcher>>

DeleteFile(file_path) ==             \* the file is removed from the tree
    /\ file_path \in DOMAIN fs
    /\ fs' = [path \in DOMAIN fs \ {file_path} |-> fs[path]]
    /\ last' = [NoCall EXCEPT !.op = "delete", !.path = file_path]
    /\ UNCHANGED <<agents, context_files, annotations, annotations_file, clock, launcher>>

Tick ==                              \* midnight passes
    /\ clock < MaxDay
    /\ clock' = clock + 1
    /\ last' = [NoCall EXCEPT !.op = "tick"]
    /\ UNCHANGED <<agents, context_files, annotations, annotations_file, fs, launcher>>

(***************************************************************************)
(* The index over a small tree of whole files.                             *)
(***************************************************************************)
AnchorLineB == Comment \o AGENT_MARK \o <<" ", "b">> \o NL

PlainFile == <<PlainLine>>
FileByA == <<PlainLine, AnchorLine, StampLine, TaskLine1>>
FileByB == <<AnchorLineB, PlainLine>>
FileByBStamped == <<AnchorLineB, StampLine>>

PathA == <<"a", ".", "t", "s">>
PathB == <<"l", "i", "b", "/", "b", ".", "t", "s">>
PathDist == <<"d", "i", "s", "t", "/", "a", ".", "t", "s">>
PathJs == <<"a", ".", "j", "s">>

IndexPaths == {PathA, PathB, PathDist, PathJs}
IndexFiles == {PlainFile, FileByA}

IndexNext ==
    \/ \E path \in IndexPaths, lines \in IndexFiles : WriteFile(path, lines)
    \/ \E path \in IndexPaths : DeleteFile(path)
    \/ UpdateAnnotationsIndex
    \/ NewManager

IndexSpec == Init /\ [][IndexNext]_vars

(***************************************************************************)
(* The relevance lookup over contexts written on different days.           *)
(***************************************************************************)
RelevantFiles == {FileByA, FileByB, FileByBStamped}

RelevantNext ==
    \/ \E a \in AgentNames, t \in TaskFiles : RegisterAgent(a, t)
    \/ \E a \in AgentNames, r \in Roles, c \in Contents : AddMessage(a, r, c, 0)
    \/ Tick
    \/ \E lines \in RelevantFiles : WriteFile(PathA, lines)
    \/ UpdateAnnotationsIndex
    \/ \E a \in AgentNames : GetRelevantContext(a, PathA)

RelevantSpec == Init /\ [][RelevantNext]_vars

(***************************************************************************)
(* The launcher: main() is phase 1, launch_phase2() is phase 2. Phase 2     *)
(* sleeps between two launches, so the signal file can change while its    *)
(* loop runs: each launch is a step.                                       *)
(***************************************************************************)
AGENTS ==
    <<"agent-critical-path", "agent-test-infra", "agent-modules-core",
      "agent-modules-persist", "agent-modules-io", "agent-cli", "agent-examples",
      "agent-docs", "agent-persistence", "agent-build">>

\* launch_agent writes agents/<name>-instructions.txt
launch_agent(files, agent_name) == files \cup {agent_name}

Main ==                              \* python launch-all-agents.py
    /\ instruction_files' = launch_agent(instruction_files, AGENTS[1])
    /\ phase2_file' = TRUE
    /\ last' = [NoCall EXCEPT !.op = "phase1"]
    /\ UNCHANGED <<agents, context_files, annotations, annotations_file, fs, clock,
                   signal_file, signal_existed, phase2_next>>

LaunchPhase2_unchecked ==
    /\ phase2_next = 0
    /\ phase2_next' = 2
    /\ last' = [NoCall EXCEPT !.op = "phase2"]
    /\ UNCHANGED <<agents, context_files, annotations, annotations_file, fs, clock,
                   instruction_files, phase2_file, signal_file, signal_existed>>

LaunchPhase2 ==                      \* python launch-all-agents.py --phase2
    /\ phase2_next = 0
    /\ IF ~signal_file
       THEN /\ last' = [NoCall EXCEPT !.op = "phase2", !.error = "no signal"]
            /\ UNCHANGED phase2_next
       ELSE /\ last' = [NoCall EXCEPT !.op = "phase2"]
            /\ phase2_next' = 2
    /\ UNCHANGED <<agents, context_files, annotations, annotations_file, fs, clock,
                   instruction_files, phase2_file, signal_file, signal_existed>>

Phase2Launch ==                      \* one turn of: for agent in AGENTS[1:]
    /\ phase2_next # 0
    /\ instruction_files' = launch_agent(instruction_files, AGENTS[phase2_next])
    /\ phase2_next' = IF phase2_next = Len(AGENTS) THEN 0 ELSE phase2_next + 1
    /\ last' = [NoCall EXCEPT !.op = "launch"]
    /\ UNCHANGED <<agents, context_files, annotations, annotations_file, fs, clock,
                   phase2_file, signal_file, signal_existed>>

CreateSignal ==                      \* agent 0 creates tasks/.critical-path-complete
    /\ signal_file' = TRUE
    /\ signal_existed' = TRUE
    /\ last' = [NoCall EXCEPT !.op = "signal"]
    /\ UNCHANGED <<agents, context_files, annotations, annotations_file, fs, clock,
                   instruction_files, phase2_file, phase2_next>>

RemoveSignal ==                      \* somebody removes it again
    /\ signal_file
    /\ signal_file' = FALSE
    /\ last' = [NoCall EXCEPT !.op = "unsignal"]
    /\ UNCHANGED <<agents, context_files, annotations, annotations_file, fs, clock,
                   instruction_files, phase2_file, signal_existed, phase2_next>>

LauncherNext ==
    \/ Main
    \/ LaunchPhase2
    \/ Phase2Launch
    \/ CreateSignal
    \/ RemoveSignal

LauncherSpec == Init /\ [][LauncherNext]_vars

(***************************************************************************)
(* Properties of the context store.                                        *)
(***************************************************************************)
RECURSIVE SumTokens(_)
SumTokens(messages) ==
    IF messages = <<>> THEN 0 ELSE Head(messages).tokens + SumTokens(Tail(messages))

\* C1: for every registered agent, after any sequence of register,
\* add_message and trim calls, current_tokens equals the sum of the token
\* costs of the messages its list retains (and so does every persisted record).
TokenCountIsSum ==
    /\ \A a \in DOMAIN agents :
          agents[a].current_tokens = SumTokens(agents[a].messages)
    /\ \A a \in DOMAIN context_files :
          context_files[a].current_tokens = SumTokens(context_files[a].messages)

TokenCountAfterTrim ==
    /\ last.op \in {"add_message", "trim"}
    /\ last.removed > 0
    /\ last.agent \in DOMAIN agents
    /\ Len(agents[last.agent].messages) > 1
    /\ agents[last.agent].current_tokens > 0

\* What _trim_context may turn the list `before` with running total `total`
\* into: position 0 stays, the k messages after it go, k is the first count
\* at which the total is at most the target or one message remains.
TrimRule(before, total, after, target) ==
    IF before = <<>>
    THEN after = <<>>
    ELSE /\ after # <<>>
         /\ after[1] = before[1]
         /\ \E k \in 0..(Len(before) - 1) :
               /\ after = <<before[1]>> \o SubSeq(before, k + 2, Len(before))
               /\ \/ total - SumTokens(SubSeq(before, 2, k + 1)) <= target
                  \/ Len(after) = 1
               /\ \A j \in 0..(k - 1) :
                     total - SumTokens(SubSeq(before, 2, j + 1)) > target

\* C2: trimming never removes the message at position 0 and stops exactly
\* when the total is at most max_tokens - 20000 or one message remains: it
\* removes the messages at position 1 one after another, no further one once
\* the total is at or below the target, and goes on while it is above the
\* target and more than one message remains.
TrimStopsExactly ==
    [][/\ last'.op = "trim" /\ last'.error = "none" =>
              TrimRule(agents[last'.agent].messages,
                       agents[last'.agent].current_tokens,
                       agents'[last'.agent].messages,
                       agents[last'.agent].max_tokens - 20000)
       /\ /\ last'.op = "add_message"
          /\ last'.error = "none"
          /\ agents[last'.agent].current_tokens + last'.tokens
                > agents[last'.agent].max_tokens
          => \E r \in Roles, c \in Contents :
                TrimRule(Append(agents[last'.agent].messages,
                                Message(r, c, IsoNow(clock), last'.tokens)),
                         agents[last'.agent].current_tokens + last'.tokens,
                         agents'[last'.agent].messages,
                         agents[last'.agent].max_tokens - 20000)]_vars

TrimStoppedAtTarget ==
    /\ last.op \in {"add_message", "trim"}
    /\ last.removed >= 2
    /\ Len(agents[last.agent].messages) >= 2
    /\ agents[last.agent].current_tokens <= 180000

\* C3: add_message for a name that is not in the registry raises to the
\* caller and leaves the registry, every context and every context file as
\* they were.
UnknownAgentRejected ==
    [][last'.op = "add_message" /\ last'.agent \notin DOMAIN agents =>
          /\ last'.error = "ValueError"
          /\ last'.saves = <<>>
          /\ agents' = agents
          /\ context_files' = context_files]_vars

UnknownAgentCase ==
    /\ last.op = "add_message"
    /\ last.error = "ValueError"
    /\ last.agent \notin DOMAIN agents
    /\ DOMAIN agents # {}
    /\ last.agent \in DOMAIN context_files

\* C4 as stated: add_message persists the untrimmed record (the message
\* appended, nothing removed) first, and after a trim the trimmed one last.
UntrimmedPersistedFirst ==
    last.op = "add_message" /\ last.error = "none" =>
        /\ last.saves # <<>>
        /\ Len(last.saves[1].messages)
              = Len(agents[last.agent].messages) + last.removed
        /\ last.saves[Len(last.saves)] = asdict(agents[last.agent])

\* C4 as amended: add_message appends the message and adds its cost in
\* memory only; if the count then exceeds max_tokens it trims and the trim
\* persists the trimmed record, and the final persistence writes the same
\* record again. The untrimmed record is persisted (once) only when no trim
\* is triggered.
TrimmedBeforePersisted ==
    [][last'.op = "add_message" /\ last'.agent \in DOMAIN agents =>
          LET before == agents[last'.agent]
              final == asdict(agents'[last'.agent])
              triggered == before.current_tokens + last'.tokens > before.max_tokens
          IN  /\ last'.error = "none"
              /\ last'.saves = IF triggered THEN <<final, final>> ELSE <<final>>
              /\ context_files'[last'.agent] = final
              /\ ~triggered =>
                    /\ Len(final.messages) = Len(before.messages) + 1
                    /\ final.current_tokens = before.current_tokens + last'.tokens
              /\ triggered =>
                    \/ final.current_tokens <= before.max_tokens - 20000
                    \/ Len(final.messages) = 1]_vars

AppendTriggeredTrim ==
    /\ last.op = "add_message"
    /\ last.removed > 0
    /\ Len(last.saves) = 2
    /\ last.saves[1] = last.saves[2]
    /\ last.saves[2] = asdict(agents[last.agent])

\* C5: after every completed register, add_message or trim the context file
\* of the agent holds its in-memory record, so load_context returns that
\* record; after register, also of a name already registered, the file
\* holds zero tokens and no messages.
PersistedEqualsMemory ==
    last.op \in {"register", "add_message", "trim"} /\ last.error = "none" =>
        /\ last.agent \in DOMAIN agents
        /\ last.agent \in DOMAIN context_files
        /\ load_context(context_files, last.agent) = <<agents[last.agent]>>
        /\ context_files[last.agent].current_tokens
              = agents[last.agent].current_tokens
        /\ context_files[last.agent].messages = agents[last.agent].messages
        /\ last.op = "register" =>
              /\ context_files[last.agent].current_tokens = 0
              /\ context_files[last.agent].messages = <<>>

ReRegistered ==
    /\ last.op = "register"
    /\ last.known
    /\ last.agent \in DOMAIN context_files
    /\ \E a \in DOMAIN agents : agents[a].messages # <<>>

\* C10: load_context of a name with no context file returns None without
\* raising, and load_context of any name leaves the registry and every
\* in-memory context unchanged.
LoadIsReadOnly ==
    [][last'.op = "load" =>
          /\ last'.error = "none"
          /\ agents' = agents
          /\ last'.agent \notin DOMAIN context_files => last'.result = <<>>
          /\ last'.agent \in DOMAIN context_files =>
                last'.result = <<FromDict(context_files[last'.agent])>>]_vars

LoadNotFound ==
    /\ last.op = "load"
    /\ last.result = <<>>
    /\ last.agent \notin DOMAIN context_files
    /\ \E a \in DOMAIN agents : agents[a].messages # <<>>

(***************************************************************************)
(* Properties of the scanner.                                              *)
(***************************************************************************)
IsAnchor(line) == Contains(line, AGENT_MARK) /\ SearchAgent(line) # <<>>

\* the lines n+1 .. n+span of a file of `count` lines
LinesAfter(n, span, count) == (n + 1)..(IF n + span < count THEN n + span ELSE count)

Carries(line, marker, value) ==
    /\ Contains(line, marker)
    /\ SearchRest(line, marker) # <<>>
    /\ strip(SearchRest(line, marker)[1]) = value

\* every non-empty field of an annotation on line n is the value of its
\* marker on one of the lines n+1 .. n+span, and a file whose first anchor
\* has no companion marker on these lines yields exactly one annotation, with
\* empty timestamp, task and notes
CompanionsWithin(span) ==
    last.op = "scan" =>
        LET lines == fs[last.path]
            anchors == {n \in 1..Len(lines) : IsAnchor(lines[n])}
        IN  /\ \A k \in 1..Len(last.result) :
                  LET ann == last.result[k]
                      window == LinesAfter(ann.line_number, span, Len(lines))
                  IN  /\ ann.timestamp # <<>> =>
                            \E i \in window :
                               Carries(lines[i], TIMESTAMP_MARK, ann.timestamp)
                      /\ ann.task_ref # <<>> =>
                            \E i \in window : Carries(lines[i], TASK_MARK, ann.task_ref)
                      /\ ann.notes # <<>> =>
                            \E i \in window : Carries(lines[i], NOTES_MARK, ann.notes)
            /\ anchors # {} =>
                  LET n == Least(anchors)
                  IN  (\A i \in LinesAfter(n, span, Len(lines)) :
                          /\ ~Contains(lines[i], TIMESTAMP_MARK)
                          /\ ~Contains(lines[i], TASK_MARK)
                          /\ ~Contains(lines[i], NOTES_MARK))
                      => last.result = <<CodeAnnotation(last.path, n,
                                             SearchAgent(lines[n])[1],
                                             <<>>, <<>>, <<>>)>>

\* C7 as stated: companion metadata of an anchor on line n comes only from
\* the up-to-4 lines n+1 .. n+4; a marker on line n+5 or later never sets a
\* field, and an anchor with no companion marker within those 4 lines yields
\* one annotation with empty timestamp, task and notes.
CompanionsWithinFour == CompanionsWithin(4)

\* C7 as amended: companion metadata of an anchor on line n comes only from
\* the up-to-5 lines n+1 .. n+5; a marker on line n+6 or later never sets a
\* field, and a file whose anchor has no companion marker within those 5
\* lines yields one annotation with empty timestamp, task and notes.
CompanionsWithinFive == CompanionsWithin(5)

FifthLineRead ==
    /\ last.op = "scan"
    /\ Len(last.result) = 1
    /\ Len(fs[last.path]) >= last.result[1].line_number + 6
    /\ last.result[1].task_ref # <<>>
    /\ last.result[1].notes = <<>>
    /\ \A i \in 1..Len(fs[last.path]) :
          /\ Contains(fs[last.path][i], TASK_MARK) <=> i = last.result[1].line_number + 5
          /\ Contains(fs[last.path][i], NOTES_MARK) <=> i = last.result[1].line_number + 6

\* C8: when several lines of an anchor's look-ahead window carry the same
\* companion marker, the annotation's field is the value of the first such
\* line of the window.
FirstCompanionWins ==
    last.op = "scan" =>
        \A k \in 1..Len(last.result) :
            LET ann == last.result[k]
                lines == fs[last.path]
                window == LinesAfter(ann.line_number, LookAheadSpan, Len(lines))
                First(marker) == Least({i \in window : Contains(lines[i], marker)})
                Several(marker) ==
                    Cardinality({i \in window : Contains(lines[i], marker)}) >= 2
            IN  /\ Several(TIMESTAMP_MARK) =>
                      Carries(lines[First(TIMESTAMP_MARK)], TIMESTAMP_MARK, ann.timestamp)
                /\ Several(TASK_MARK) =>
                      Carries(lines[First(TASK_MARK)], TASK_MARK, ann.task_ref)
                /\ Several(NOTES_MARK) =>
                      Carries(lines[First(NOTES_MARK)], NOTES_MARK, ann.notes)

(***************************************************************************)
(* Properties of the index and of the relevance lookup.                    *)
(***************************************************************************)
\* C6: after update_annotations_index the index, in memory and in
\* annotations.json, holds exactly the files that yielded an annotation in
\* this scan, each with this scan's annotations; an entry from before the
\* rebuild for a file that now yields none, is gone or is skipped does not
\* survive.
IndexIsRebuilt ==
    last.op = "update_index" =>
        /\ DOMAIN annotations
              = {path \in FilesToScan(fs) : scan_code_annotations(fs, path) # <<>>}
        /\ \A path \in DOMAIN annotations :
              annotations[path] = scan_code_annotations(fs, path)
        /\ annotations_file = <<annotations>>

DayOf(timestamp) == SubSeq(timestamp, 1, 10)

\* C9: every entry get_relevant_context(agent_name, file_path) returns comes
\* from an annotation on file_path by another author and carries a message
\* of that author's context file whose timestamp has the calendar day of the
\* annotation's timestamp; no message of another day is returned, also when
\* the annotation has no timestamp.
RelevantIsSameDay ==
    last.op = "relevant" =>
        \A k \in 1..Len(last.result) :
            LET entry == last.result[k]
            IN  /\ entry.agent # last.agent
                /\ entry.agent \in DOMAIN context_files
                /\ \E i \in 1..Len(context_files[entry.agent].messages) :
                      context_files[entry.agent].messages[i] = entry.message
                /\ last.path \in DOMAIN annotations
                /\ \E j \in 1..Len(annotations[last.path]) :
                      LET ann == annotations[last.path][j]
                      IN  /\ ann.agent_name = entry.agent
                          /\ ann.task_ref = entry.task
                          /\ ann.notes = entry.notes
                          /\ Len(ann.timestamp) >= 10
                          /\ Len(entry.message.timestamp) >= 10
                          /\ DayOf(entry.message.timestamp) = DayOf(ann.timestamp)

(***************************************************************************)
(* Properties of the launcher.                                             *)
(***************************************************************************)
Dependents == {AGENTS[i] : i \in 2..Len(AGENTS)}

\* C11: a phase-1 run writes the instruction file of the first configured
\* agent only; a phase-2 run writes instruction files of the dependent agents
\* only if the signal file exists when it is invoked, and none at all if it
\* is absent; so no dependent agent's instruction file ever appears before
\* the signal file has existed.
PhasesGatedBySignal ==
    [][/\ last'.op = "phase1" =>
              instruction_files' \ instruction_files \subseteq {AGENTS[1]}
       /\ last'.op = "phase1" => AGENTS[1] \in instruction_files'
       /\ last'.op = "phase2" /\ ~signal_file =>
              /\ instruction_files' = instruction_files
              /\ phase2_next' = 0
       /\ phase2_next = 0 /\ phase2_next' # 0 => signal_file
       /\ (instruction_files' \ instruction_files) \cap Dependents # {} =>
              phase2_next # 0
       /\ instruction_files' \cap Dependents # {} => signal_existed']_vars

Phase2Completed ==
    /\ last.op = "launch"
    /\ phase2_next = 0
    /\ Dependents \subseteq instruction_files
    /\ signal_existed
    /\ ~signal_file

(***************************************************************************)
(* More properties of the scanner and of the store.                        *)
(***************************************************************************)
\* C12: scan_code_annotations of a readable file yields exactly one
\* annotation for every line that holds an anchor, with that line's 1-based
\* number and in line order; a file with two or more anchor lines yields two
\* or more annotations.
OneAnnotationPerAnchor ==
    last.op = "scan" =>
        LET lines == fs[last.path]
            anchors == {n \in 1..Len(lines) : IsAnchor(lines[n])}
        IN  /\ Len(last.result) = Cardinality(anchors)
            /\ \A k \in 1..Len(last.result) :
                  /\ last.result[k].line_number \in anchors
                  /\ Cardinality({n \in anchors : n <= last.result[k].line_number}) = k

\* C13: a new manager starts with an empty registry whatever context files
\* exist, and only register_agent adds a name to the registry (load_context
\* does not); so add_message and _trim_context for a name that only an
\* earlier run registered raise instead of working on its context file, and
\* so does the trim command, which runs on a new manager.
OnlyRegisterAddsAgents ==
    [][/\ last'.op = "new" => agents' = EmptyMap
       /\ DOMAIN agents' \ DOMAIN agents # {} =>
              /\ last'.op = "register"
              /\ DOMAIN agents' \ DOMAIN agents = {last'.agent}
       /\ last'.op \in {"add_message", "trim"} /\ last'.agent \notin DOMAIN agents =>
              /\ last'.error = IF last'.op = "trim" THEN "KeyError" ELSE "ValueError"
              /\ last'.saves = <<>>
              /\ agents' = agents
              /\ context_files' = context_files
       /\ last'.op = "trim_command" =>
              /\ agents' = EmptyMap
              /\ last'.saves = <<>>
              /\ context_files' = context_files
              /\ last'.agent # <<>> => last'.error = "KeyError"]_vars

TrimCommandOnPersisted ==
    /\ last.op = "trim_command"
    /\ last.error = "KeyError"
    /\ last.agent \in DOMAIN context_files
    /\ Len(context_files[last.agent].messages) > 1
    /\ context_files[last.agent].current_tokens > 180000

====
